---- MODULE Spec2Model ----
(***************************************************************************)
(* Model of src/advanced-vector/vector.h: RawMemory<T> (an owned block of  *)
(* uninitialised memory) and Vector<T> (a dynamic array built on it).      *)
(*                                                                         *)
(* Memory is a heap of regions; a region is a sequence of slots, and a     *)
(* slot is either RAW (no object lives there) or the value of the live    *)
(* object in it.  Every member function is one operator that threads a     *)
(* machine state m through the statements of its body, in source order:    *)
(*   m.heap    the regions                                                 *)
(*   m.ub      undefined behaviour happened (destroying or reading a slot  *)
(*             that holds no object, releasing a region twice)             *)
(*   m.leaked  an object's storage was released or re-used without its     *)
(*             destructor having run                                       *)
(*   m.fuse    k > 0: the k-th element operation that may throw, throws    *)
(*   m.thrown  an exception is propagating                                 *)
(* The element type T is described by two traits, fixed by Init.  All the  *)
(* element types modelled are copy constructible.                          *)
(***************************************************************************)
EXTENDS Integers, Sequences, FiniteSets

\* Bounds of the model.
MaxTotal == 3      \* capacity of an array that is alone
MaxPair == 3       \* capacity two arrays alive together may have in all
MaxVal == 2        \* element values supplied by callers are 1..MaxVal
NBlocks == 3       \* addresses operator new can hand out
MaxRaw == 3        \* capacity of a stand-alone RawMemory block
MaxOps == 5        \* length of a recorded sequence of appends and removals
MaxWide == 4       \* capacity of an array that is resized and reserved only

VARIABLES heap, vec, raw, T, ub, call, hist, room

vars == <<heap, vec, raw, T, ub, call, hist, room>>

\* A slot that holds no object.
RAW == -1
\* The value of a value-initialised element and of an emptied moved-from one.
EMPTY == 0

Vals == 1 .. MaxVal
Vecs == {"a", "b"}
Raws == {"r", "s"}
Blocks == 1 .. NBlocks

Max(x, y) == IF x >= y THEN x ELSE y

(***************************************************************************)
(* Exceptions.                                                             *)
(***************************************************************************)
Throws(m, can) == can /\ m.fuse = 1
Tick(m, can) == IF can /\ m.fuse > 1 THEN [m EXCEPT !.fuse = @ - 1] ELSE m
Raise(m) == [m EXCEPT !.thrown = TRUE, !.fuse = 0]
\* Undefined behaviour ends the operation; the run stops there.
UB(m) == [m EXCEPT !.ub = TRUE, !.thrown = TRUE, !.fuse = 0]

\* Which element operations of T may throw.
CopyThrows == TRUE
MoveThrows == ~T.nothrowMove
\* Line 206: is_nothrow_move_constructible_v<T> || !is_copy_constructible_v<T>.
MovePolicy == T.nothrowMove

\* What a move leaves in its source holding value x.
MovedFrom(x) == IF T.moveEmpties THEN EMPTY ELSE x

(***************************************************************************)
(* RawMemory<T>                                                            *)
(***************************************************************************)
NullRaw == [buffer_ |-> 0, capacity_ |-> 0]

FreeBlocks(m) == {b \in Blocks : m.heap[b] = <<>>}

\* Allocate(n): operator new for n != 0, nullptr otherwise.
Allocate(m, n) ==
    IF n = 0 THEN [m |-> m, p |-> 0]
    ELSE LET b == CHOOSE c \in FreeBlocks(m) : \A d \in FreeBlocks(m) : c <= d
         IN [m |-> [m EXCEPT !.heap[b] = [i \in 1 .. n |-> RAW]], p |-> b]

\* Deallocate(buf): operator delete; deleting nullptr does nothing.
Deallocate(m, buf) ==
    IF buf = 0 THEN m
    ELSE IF m.heap[buf] = <<>> THEN [m EXCEPT !.ub = TRUE]
    ELSE [m EXCEPT !.heap[buf] = <<>>,
                   !.leaked = @ \/ (\E i \in DOMAIN m.heap[buf] : m.heap[buf][i] # RAW)]

\* explicit RawMemory(size_t capacity)
RawMemoryCtor(m, capacity) ==
    LET a == Allocate(m, capacity)
    IN [m |-> a.m, r |-> [buffer_ |-> a.p, capacity_ |-> capacity]]

\* ~RawMemory()
RawMemoryDtor(m, r) == Deallocate(m, r.buffer_)

\* RawMemory(RawMemory&& other): the pair <<new block, other afterwards>>.
RawMemoryMoveCtor(other) == <<other, NullRaw>>

\* operator=(RawMemory&& rhs): the pair <<*this, rhs>> afterwards.
RawMemoryMoveAssign(this, rhs, same) ==
    IF ~same THEN <<[buffer_ |-> rhs.buffer_, capacity_ |-> rhs.capacity_], NullRaw>>
    ELSE <<this, rhs>>

\* Swap(RawMemory& other): the pair <<*this, other>> afterwards.
RawMemorySwap(this, other) == <<other, this>>

(***************************************************************************)
(* Operations on one element.  b is a region, i a 0-based slot index.      *)
(***************************************************************************)
At(m, b, i) == m.heap[b][i + 1]

\* new (p) T(x): construction from a value; may throw when can.
Construct(m, b, i, x, can) ==
    IF m.thrown THEN m
    ELSE IF Throws(m, can) THEN Raise(m)
    ELSE LET m1 == Tick(m, can)
         IN [m1 EXCEPT !.heap[b][i + 1] = x, !.leaked = @ \/ At(m, b, i) # RAW]

\* T(): value initialisation.
ValueConstruct(m, b, i) == Construct(m, b, i, EMPTY, TRUE)

\* T(const T&) from the object in slot si of region sb.
CopyConstruct(m, sb, si, db, di) ==
    IF m.thrown THEN m
    ELSE IF At(m, sb, si) = RAW THEN UB(m)
    ELSE Construct(m, db, di, At(m, sb, si), CopyThrows)

\* T(T&&) from the object in slot si of region sb.
MoveConstruct(m, sb, si, db, di) ==
    IF m.thrown THEN m
    ELSE IF At(m, sb, si) = RAW THEN UB(m)
    ELSE LET x == At(m, sb, si)
             m1 == Construct(m, db, di, x, MoveThrows)
         IN IF m1.thrown THEN m1 ELSE [m1 EXCEPT !.heap[sb][si + 1] = MovedFrom(x)]

\* operator=(T&&): both slots must hold objects.
MoveAssign(m, sb, si, db, di) ==
    IF m.thrown THEN m
    ELSE IF At(m, sb, si) = RAW \/ At(m, db, di) = RAW THEN UB(m)
    ELSE IF Throws(m, MoveThrows) THEN Raise(m)
    ELSE LET x == At(m, sb, si)
             m1 == Tick(m, MoveThrows)
         IN [m1 EXCEPT !.heap[db][di + 1] = x, !.heap[sb][si + 1] = MovedFrom(x)]

\* operator=(const T&)
CopyAssign(m, sb, si, db, di) ==
    IF m.thrown THEN m
    ELSE IF At(m, sb, si) = RAW \/ At(m, db, di) = RAW THEN UB(m)
    ELSE IF Throws(m, CopyThrows) THEN Raise(m)
    ELSE [Tick(m, CopyThrows) EXCEPT !.heap[db][di + 1] = At(m, sb, si)]

\* std::destroy_at: noexcept, runs whether or not an exception is in flight.
DestroyAt(m, b, i) ==
    IF At(m, b, i) = RAW THEN [m EXCEPT !.ub = TRUE]
    ELSE [m EXCEPT !.heap[b][i + 1] = RAW]

(***************************************************************************)
(* Operations on ranges of elements (<memory>, <algorithm>).               *)
(***************************************************************************)
\* std::destroy_n(b + i, n)
RECURSIVE DestroyN(_, _, _, _)
DestroyN(m, b, i, n) ==
    IF n = 0 THEN m ELSE DestroyN(DestroyAt(m, b, i), b, i + 1, n - 1)

\* std::uninitialized_copy_n that leaves what it constructed when a copy throws.
RECURSIVE UninitCopyNoRollback(_, _, _, _, _, _, _)
UninitCopyNoRollback(m, sb, si, n, db, di, k) ==
    IF m.thrown \/ k = n THEN m
    ELSE UninitCopyNoRollback(CopyConstruct(m, sb, si + k, db, di + k), sb, si, n, db, di, k + 1)

\* std::uninitialized_copy_n(sb + si, n, db + di); k elements are done.  When a
\* copy throws, the k elements already constructed are destroyed.
RECURSIVE UninitCopyFrom(_, _, _, _, _, _, _)
UninitCopyFrom(m, sb, si, n, db, di, k) ==
    IF m.thrown \/ k = n THEN m
    ELSE LET m1 == CopyConstruct(m, sb, si + k, db, di + k)
         IN IF m1.thrown THEN DestroyN(m1, db, di, k)
            ELSE UninitCopyFrom(m1, sb, si, n, db, di, k + 1)

UninitializedCopyN(m, sb, si, n, db, di) == UninitCopyFrom(m, sb, si, n, db, di, 0)

\* std::uninitialized_move_n(sb + si, n, db + di), with the same roll-back.
RECURSIVE UninitMoveFrom(_, _, _, _, _, _, _)
UninitMoveFrom(m, sb, si, n, db, di, k) ==
    IF m.thrown \/ k = n THEN m
    ELSE LET m1 == MoveConstruct(m, sb, si + k, db, di + k)
         IN IF m1.thrown THEN DestroyN(m1, db, di, k)
            ELSE UninitMoveFrom(m1, sb, si, n, db, di, k + 1)

UninitializedMoveN(m, sb, si, n, db, di) == UninitMoveFrom(m, sb, si, n, db, di, 0)

\* std::uninitialized_value_construct_n(b + i, n), with the same roll-back.
RECURSIVE UninitValueFrom(_, _, _, _, _)
UninitValueFrom(m, b, i, n, k) ==
    IF m.thrown \/ k = n THEN m
    ELSE LET m1 == ValueConstruct(m, b, i + k)
         IN IF m1.thrown THEN DestroyN(m1, b, i, k)
            ELSE UninitValueFrom(m1, b, i, n, k + 1)

UninitializedValueConstructN(m, b, i, n) == UninitValueFrom(m, b, i, n, 0)

\* std::move_backward(b + first, b + last, b + dlast):
\* while (first != last) *(--dlast) = std::move(*(--last)).
RECURSIVE MoveBackward(_, _, _, _, _)
MoveBackward(m, b, first, last, dlast) ==
    IF m.thrown \/ first = last THEN m
    ELSE MoveBackward(MoveAssign(m, b, last - 1, b, dlast - 1), b, first, last - 1, dlast - 1)

\* std::move that moves nothing.
MoveForwardNothing(m, b, first, last, dfirst) == m

\* std::move(b + first, b + last, b + dfirst):
\* while (first != last) *dfirst++ = std::move(*first++).
RECURSIVE MoveForward(_, _, _, _, _)
MoveForward(m, b, first, last, dfirst) ==
    IF m.thrown \/ first = last THEN m
    ELSE MoveForward(MoveAssign(m, b, first, b, dfirst), b, first + 1, last, dfirst + 1)

\* std::copy that copies nothing.
CopyForwardNothing(m, sb, first, last, db, dfirst) == m

\* std::copy(sb + first, sb + last, db + dfirst)
RECURSIVE CopyForward(_, _, _, _, _, _)
CopyForward(m, sb, first, last, db, dfirst) ==
    IF m.thrown \/ first = last THEN m
    ELSE CopyForward(CopyAssign(m, sb, first, db, dfirst), sb, first + 1, last, db, dfirst + 1)

\* Transfer that always moves.
TransferByMove(m, sb, si, n, db, di) == UninitializedMoveN(m, sb, si, n, db, di)

\* The if constexpr of lines 206-213, 243-250, 267-274: move the elements when
\* T's move cannot throw (or T cannot be copied), copy them otherwise.
Transfer(m, sb, si, n, db, di) ==
    IF MovePolicy THEN UninitializedMoveN(m, sb, si, n, db, di)
    ELSE UninitializedCopyN(m, sb, si, n, db, di)

(***************************************************************************)
(* Vector<T>.  A vector is [data_ |-> a RawMemory, size_ |-> n]; every     *)
(* operation yields the machine state and the vector(s) afterwards.        *)
(***************************************************************************)
EmptyVector == [data_ |-> NullRaw, size_ |-> 0]

Buf(v) == v.data_.buffer_
Capacity(v) == v.data_.capacity_

\* GrowCapacity that makes room for one more element only.
GrowCapacityByOne(size) == size + 1

\* Lines 241, 265, 361, 398: size_ == 0 ? 1 : size_ * 2.
GrowCapacity(size) == IF size = 0 THEN 1 ELSE size * 2

\* AdoptBlock without the Swap: the vector keeps the block it had.
AdoptBlockNoSwap(m, v, nd) ==
    LET m1 == IF m.thrown THEN m ELSE DestroyN(m, v.data_.buffer_, 0, v.size_)
    IN [m |-> RawMemoryDtor(m1, nd), v |-> v]

\* End of a growth path, lines 215-217, 251-253, 379-381, 418-420: destroy the
\* old elements, swap the blocks, and new_data's destructor releases the one
\* it then holds.  When an exception is in flight only that destructor runs.
AdoptBlock(m, v, nd) ==
    LET m1 == IF m.thrown THEN m ELSE DestroyN(m, Buf(v), 0, v.size_)
        sw == IF m.thrown THEN <<v.data_, nd>> ELSE RawMemorySwap(v.data_, nd)
    IN [m |-> RawMemoryDtor(m1, sw[2]), v |-> [v EXCEPT !.data_ = sw[1]]]

\* Vector(): lines 154, 466-467.
VectorDefault == EmptyVector

\* explicit Vector(size_t size).  A throw unwinds the member data_.
VectorSized(m, size) ==
    LET a == RawMemoryCtor(m, size)
        m1 == UninitializedValueConstructN(a.m, a.r.buffer_, 0, size)
    IN IF m1.thrown THEN [m |-> RawMemoryDtor(m1, a.r), v |-> EmptyVector]
       ELSE [m |-> m1, v |-> [data_ |-> a.r, size_ |-> size]]

\* VectorCopy that copies the members: both vectors then name one block.
VectorCopyShallow(m, other) == [m |-> m, v |-> other]

\* Vector(const Vector& other)
VectorCopy(m, other) ==
    LET a == RawMemoryCtor(m, other.size_)
        m1 == UninitializedCopyN(a.m, Buf(other), 0, other.size_, a.r.buffer_, 0)
    IN IF m1.thrown THEN [m |-> RawMemoryDtor(m1, a.r), v |-> EmptyVector]
       ELSE [m |-> m1, v |-> [data_ |-> a.r, size_ |-> other.size_]]

\* VectorMove that leaves other as it was.
VectorMoveKeepsSource(other) == <<other, other>>

\* Vector(Vector&& other): <<the new vector, other afterwards>>.
VectorMove(other) ==
    LET d == RawMemoryMoveCtor(other.data_)
    IN <<[data_ |-> d[1], size_ |-> other.size_], [data_ |-> d[2], size_ |-> 0]>>

\* ~Vector(), then the member data_ is destroyed.
VectorDtor(m, v) == RawMemoryDtor(DestroyN(m, Buf(v), 0, v.size_), v.data_)

\* Swap(Vector& other): <<*this, other>> afterwards.
Swap(v, other) ==
    LET d == RawMemorySwap(v.data_, other.data_)
    IN <<[data_ |-> d[1], size_ |-> other.size_], [data_ |-> d[2], size_ |-> v.size_]>>

\* Reserve that also reallocates when the capacity asked for is the one held.
ReserveAtEqual(m, v, new_capacity) ==
    IF new_capacity < Capacity(v) THEN [m |-> m, v |-> v]
    ELSE LET a == RawMemoryCtor(m, new_capacity)
             m1 == Transfer(a.m, Buf(v), 0, v.size_, a.r.buffer_, 0)
         IN AdoptBlock(m1, v, a.r)

\* Reserve(size_t new_capacity)
Reserve(m, v, new_capacity) ==
    IF new_capacity <= Capacity(v) THEN [m |-> m, v |-> v]
    ELSE LET a == RawMemoryCtor(m, new_capacity)
             m1 == Transfer(a.m, Buf(v), 0, v.size_, a.r.buffer_, 0)
         IN AdoptBlock(m1, v, a.r)

\* ResizeCapacity that asks for the new size only.
ResizeCapacityExact(v, new_size) == new_size

\* Lines 227-231: the capacity Resize asks Reserve for.
ResizeCapacity(v, new_size) == Max(Capacity(v) * 2, new_size)

\* Resize(size_t new_size)
Resize(m, v, new_size) ==
    IF new_size < v.size_
    THEN [m |-> DestroyN(m, Buf(v), new_size, v.size_ - new_size),
          v |-> [v EXCEPT !.size_ = new_size]]
    ELSE LET r == IF new_size > Capacity(v) THEN Reserve(m, v, ResizeCapacity(v, new_size))
                  ELSE [m |-> m, v |-> v]
             m1 == UninitializedValueConstructN(r.m, Buf(r.v), v.size_, new_size - v.size_)
         IN [m |-> m1, v |-> IF m1.thrown THEN r.v ELSE [r.v EXCEPT !.size_ = new_size]]

\* PushBack(const T& value) when ~rvalue, PushBack(T&& value) when rvalue; x is
\* the value of the argument, an object outside the vector.
PushBack(m, v, x, rvalue) ==
    LET can == IF rvalue THEN MoveThrows ELSE CopyThrows
    IN IF v.size_ = Capacity(v)
       THEN LET a == RawMemoryCtor(m, GrowCapacity(v.size_))
                m1 == Construct(a.m, a.r.buffer_, v.size_, x, can)
                m2 == Transfer(m1, Buf(v), 0, v.size_, a.r.buffer_, 0)
                r == AdoptBlock(m2, v, a.r)
            IN [m |-> r.m, v |-> IF r.m.thrown THEN r.v ELSE [r.v EXCEPT !.size_ = @ + 1]]
       ELSE LET m1 == Construct(m, Buf(v), v.size_, x, can)
            IN [m |-> m1, v |-> IF m1.thrown THEN v ELSE [v EXCEPT !.size_ = @ + 1]]

\* PopBack without the destroy_at.
PopBackNoDestroy(m, v) ==
    IF v.size_ > 0 THEN [m |-> m, v |-> [v EXCEPT !.size_ = @ - 1]] ELSE [m |-> m, v |-> v]

\* PopBack that gives up the block of an empty vector.
PopBackDropsBlock(m, v) ==
    IF v.size_ > 0
    THEN [m |-> DestroyAt(m, Buf(v), v.size_ - 1), v |-> [v EXCEPT !.size_ = @ - 1]]
    ELSE [m |-> RawMemoryDtor(m, v.data_), v |-> EmptyVector]

\* PopBack()
PopBack(m, v) ==
    IF v.size_ > 0
    THEN [m |-> DestroyAt(m, Buf(v), v.size_ - 1), v |-> [v EXCEPT !.size_ = @ - 1]]
    ELSE [m |-> m, v |-> v]

\* EmplaceBack(Args&&... args); x is the value the arguments construct.
EmplaceBack(m, v, x) ==
    IF v.size_ = Capacity(v)
    THEN LET a == RawMemoryCtor(m, GrowCapacity(v.size_))
             nb == a.r.buffer_
             m1 == Construct(a.m, nb, v.size_, x, TRUE)
             m2 == IF MovePolicy THEN UninitializedMoveN(m1, Buf(v), 0, v.size_, nb, 0)
                   ELSE LET c == UninitializedCopyN(m1, Buf(v), 0, v.size_, nb, 0)
                        IN IF c.thrown /\ ~m1.thrown THEN DestroyN(c, nb, v.size_, 1) ELSE c
             r == AdoptBlock(m2, v, a.r)
         IN [m |-> r.m, v |-> IF r.m.thrown THEN r.v ELSE [r.v EXCEPT !.size_ = @ + 1]]
    ELSE LET m1 == Construct(m, Buf(v), v.size_, x, TRUE)
         IN [m |-> m1, v |-> IF m1.thrown THEN v ELSE [v EXCEPT !.size_ = @ + 1]]

\* Whether constructing the new element can throw: Insert(const T&) copies
\* the argument (kind "copy", as does any Emplace(args...) whose constructor
\* can throw), Insert(T&&) moves it (kind "move").
ArgThrows(kind) == IF kind = "move" THEN MoveThrows ELSE TRUE

\* The transfer of the growth branch of Emplace, lines 400-417.
EmplaceTransfer(m, v, shift, nb) ==
    IF MovePolicy
    THEN LET m1 == UninitializedMoveN(m, Buf(v), 0, shift, nb, 0)
         IN UninitializedMoveN(m1, Buf(v), shift, v.size_ - shift, nb, shift + 1)
    ELSE LET c1 == UninitializedCopyN(m, Buf(v), 0, shift, nb, 0)
             c2 == UninitializedCopyN(c1, Buf(v), shift, v.size_ - shift, nb, shift + 1)
         IN IF c2.thrown /\ ~m.thrown THEN DestroyN(c2, nb, shift, 1) ELSE c2

\* The shift of the in-place branch of Emplace, lines 423-438.
EmplaceShift(m, v, shift) ==
    IF v.size_ # 0
    THEN LET b == Buf(v)
             m1 == MoveConstruct(m, b, v.size_ - 1, b, v.size_)
             m2 == MoveBackward(m1, b, shift, v.size_, v.size_ + 1)
             m3 == IF m2.thrown /\ ~m1.thrown THEN DestroyN(m2, b, v.size_, 1) ELSE m2
         IN IF m3.thrown THEN m3 ELSE DestroyAt(m3, b, shift)
    ELSE m

\* Emplace that returns the position in the block held before the call.
EmplaceReturnsOld(m, v, shift, x, kind) ==
    IF v.size_ = Capacity(v)
    THEN LET a == RawMemoryCtor(m, GrowCapacity(v.size_))
             nb == a.r.buffer_
             m1 == Construct(a.m, nb, shift, x, ArgThrows(kind))
             m2 == EmplaceTransfer(m1, v, shift, nb)
             r == AdoptBlock(m2, v, a.r)
         IN [m |-> r.m, ret |-> <<Buf(v), shift>>,
             v |-> IF r.m.thrown THEN r.v ELSE [r.v EXCEPT !.size_ = @ + 1]]
    ELSE LET m1 == EmplaceShift(m, v, shift)
             m2 == Construct(m1, Buf(v), shift, x, ArgThrows(kind))
         IN [m |-> m2, ret |-> <<Buf(v), shift>>,
             v |-> IF m2.thrown THEN v ELSE [v EXCEPT !.size_ = @ + 1]]

\* Emplace(const_iterator pos, Args&&... args) with shift = pos - begin();
\* ret is the iterator returned, <<region, index>>.
Emplace(m, v, shift, x, kind) ==
    IF v.size_ = Capacity(v)
    THEN LET a == RawMemoryCtor(m, GrowCapacity(v.size_))
             nb == a.r.buffer_
             m1 == Construct(a.m, nb, shift, x, ArgThrows(kind))
             m2 == EmplaceTransfer(m1, v, shift, nb)
             r == AdoptBlock(m2, v, a.r)
         IN [m |-> r.m, ret |-> <<nb, shift>>,
             v |-> IF r.m.thrown THEN r.v ELSE [r.v EXCEPT !.size_ = @ + 1]]
    ELSE LET m1 == EmplaceShift(m, v, shift)
             m2 == Construct(m1, Buf(v), shift, x, ArgThrows(kind))
         IN [m |-> m2, ret |-> <<Buf(v), shift>>,
             v |-> IF m2.thrown THEN v ELSE [v EXCEPT !.size_ = @ + 1]]

\* PushBack(v[src]) when ~rvalue, PushBack(std::move(v[src])) when rvalue: the
\* argument is a reference to the element in slot src of the vector itself,
\* read where the code reads value (lines 242, 256, 266, 280).
PushBackRef(m, v, src, rvalue) ==
    IF v.size_ = Capacity(v)
    THEN LET a == RawMemoryCtor(m, GrowCapacity(v.size_))
             m1 == IF rvalue THEN MoveConstruct(a.m, Buf(v), src, a.r.buffer_, v.size_)
                   ELSE CopyConstruct(a.m, Buf(v), src, a.r.buffer_, v.size_)
             m2 == Transfer(m1, Buf(v), 0, v.size_, a.r.buffer_, 0)
             r == AdoptBlock(m2, v, a.r)
         IN [m |-> r.m, v |-> IF r.m.thrown THEN r.v ELSE [r.v EXCEPT !.size_ = @ + 1]]
    ELSE LET m1 == IF rvalue THEN MoveConstruct(m, Buf(v), src, Buf(v), v.size_)
                   ELSE CopyConstruct(m, Buf(v), src, Buf(v), v.size_)
         IN [m |-> m1, v |-> IF m1.thrown THEN v ELSE [v EXCEPT !.size_ = @ + 1]]

\* EmplaceBack(v[src]): the argument is read at lines 362 and 384.
EmplaceBackRef(m, v, src) ==
    IF v.size_ = Capacity(v)
    THEN LET a == RawMemoryCtor(m, GrowCapacity(v.size_))
             nb == a.r.buffer_
             m1 == CopyConstruct(a.m, Buf(v), src, nb, v.size_)
             m2 == IF MovePolicy THEN UninitializedMoveN(m1, Buf(v), 0, v.size_, nb, 0)
                   ELSE LET c == UninitializedCopyN(m1, Buf(v), 0, v.size_, nb, 0)
                        IN IF c.thrown /\ ~m1.thrown THEN DestroyN(c, nb, v.size_, 1) ELSE c
             r == AdoptBlock(m2, v, a.r)
         IN [m |-> r.m, v |-> IF r.m.thrown THEN r.v ELSE [r.v EXCEPT !.size_ = @ + 1]]
    ELSE LET m1 == CopyConstruct(m, Buf(v), src, Buf(v), v.size_)
         IN [m |-> m1, v |-> IF m1.thrown THEN v ELSE [v EXCEPT !.size_ = @ + 1]]

\* Insert(pos, v[src]) / Emplace(pos, v[src]): the argument is read at line
\* 399 on the growth path and at line 439, after the shift and the destroy_at
\* of slot shift, on the in-place path.
EmplaceRef(m, v, shift, src) ==
    IF v.size_ = Capacity(v)
    THEN LET a == RawMemoryCtor(m, GrowCapacity(v.size_))
             nb == a.r.buffer_
             m1 == CopyConstruct(a.m, Buf(v), src, nb, shift)
             m2 == EmplaceTransfer(m1, v, shift, nb)
             r == AdoptBlock(m2, v, a.r)
         IN [m |-> r.m, ret |-> <<nb, shift>>,
             v |-> IF r.m.thrown THEN r.v ELSE [r.v EXCEPT !.size_ = @ + 1]]
    ELSE LET m1 == EmplaceShift(m, v, shift)
             m2 == CopyConstruct(m1, Buf(v), src, Buf(v), shift)
         IN [m |-> m2, ret |-> <<Buf(v), shift>>,
             v |-> IF m2.thrown THEN v ELSE [v EXCEPT !.size_ = @ + 1]]

\* Erase(const_iterator pos) with shift = pos - begin().
Erase(m, v, shift) ==
    LET m1 == MoveForward(m, Buf(v), shift + 1, v.size_, shift)
        r == IF m1.thrown THEN [m |-> m1, v |-> v] ELSE PopBack(m1, v)
    IN [m |-> r.m, v |-> r.v, ret |-> <<Buf(r.v), shift>>]

\* operator= that always assigns by copy and swap.
AssignCopyBySwap(m, v, other, same) ==
    IF same THEN [m |-> m, v |-> v]
    ELSE LET c == VectorCopy(m, other)
             sw == Swap(v, c.v)
         IN IF c.m.thrown THEN [m |-> c.m, v |-> v]
            ELSE [m |-> VectorDtor(c.m, sw[2]), v |-> sw[1]]

\* operator=(const Vector& other); same: this == &other.
AssignCopy(m, v, other, same) ==
    IF same THEN [m |-> m, v |-> v]
    ELSE IF other.size_ <= Capacity(v)
    THEN LET m2 == IF v.size_ <= other.size_
                   THEN LET m1 == CopyForward(m, Buf(other), 0, v.size_, Buf(v), 0)
                        IN UninitializedCopyN(m1, Buf(other), v.size_,
                                              other.size_ - v.size_, Buf(v), v.size_)
                   ELSE LET m1 == CopyForward(m, Buf(other), 0, other.size_, Buf(v), 0)
                        IN IF m1.thrown THEN m1
                           ELSE DestroyN(m1, Buf(v), other.size_, v.size_ - other.size_)
         IN [m |-> m2, v |-> IF m2.thrown THEN v ELSE [v EXCEPT !.size_ = other.size_]]
    ELSE LET c == VectorCopy(m, other)
             sw == Swap(v, c.v)
         IN IF c.m.thrown THEN [m |-> c.m, v |-> v]
            ELSE [m |-> VectorDtor(c.m, sw[2]), v |-> sw[1]]

\* operator=(Vector&& other): <<*this, other>> afterwards.
AssignMove(v, other) == Swap(v, other)

\* v[index] = x: operator[] and T's copy assignment from an outside value.
IndexWrite(m, v, index, x) ==
    IF At(m, Buf(v), index) = RAW THEN UB(m)
    ELSE IF Throws(m, CopyThrows) THEN Raise(m)
    ELSE [Tick(m, CopyThrows) EXCEPT !.heap[Buf(v)][index + 1] = x]

(***************************************************************************)
(* The state machine: two vector objects a and b, and the calls a program  *)
(* can make on them.  f is the fuse of the call: 0 for a call in which     *)
(* nothing throws, k for one whose k-th throwing element operation throws. *)
(* call records the call last made and how it ended, until the caller      *)
(* takes the result (Return).  An exception that leaves a call unwinds the *)
(* caller's scope, which destroys the vectors (Unwind).                    *)
(***************************************************************************)
Sizes == 0 .. MaxTotal

\* An append to an array of n elements performs at most n + 1 element
\* operations that can throw; an Emplace at most n + 2.
Fuses(x) == 0 .. vec[x].size_ + 1

NoObject == [alive |-> FALSE, data_ |-> NullRaw, size_ |-> 0]
Object(v) == [alive |-> TRUE, data_ |-> v.data_, size_ |-> v.size_]
V(x) == [data_ |-> vec[x].data_, size_ |-> vec[x].size_]

M(f) == [heap |-> heap, ub |-> ub, leaked |-> FALSE, fuse |-> f, thrown |-> FALSE]

Outcome(m) == IF m.ub THEN "ub" ELSE IF m.thrown THEN "throw" ELSE "ok"

\* What a caller can see of vector x, and the slots of its block.
Slots(h, buf) == IF buf = 0 THEN <<>> ELSE h[buf]
Snap(x) == [alive |-> vec[x].alive, data_ |-> vec[x].data_, size_ |-> vec[x].size_,
            slots |-> Slots(heap, vec[x].data_.buffer_)]
NoSnap == [alive |-> FALSE, data_ |-> NullRaw, size_ |-> 0, slots |-> <<>>]

\* The record of a call: its arguments, how it ended (out), whether it leaked
\* an element, the iterator it returned, the fuse it ran with, and the vectors
\* as they were before.
Call(op, x, m, path, idx, val, ret) ==
    [op |-> op, tgt |-> x, out |-> Outcome(m), path |-> path, idx |-> idx, val |-> val,
     ret |-> ret, leak |-> m.leaked, fuse |-> 0, pre |-> [y \in Vecs |-> Snap(y)]]

NoCall == [op |-> "none", tgt |-> "a", out |-> "ok", path |-> "none", idx |-> 0, val |-> 0,
           ret |-> <<0, 0>>, leak |-> FALSE, fuse |-> 0, pre |-> [y \in Vecs |-> NoSnap]]

TotalCapacity(nv) == nv["a"].data_.capacity_ + nv["b"].data_.capacity_

\* The path a call that may grow takes.
GrowPath(x) == IF vec[x].size_ = vec[x].data_.capacity_ THEN "grow" ELSE "inplace"

\* No call is being made: the caller has taken the result of the last one.
Idle == ~ub /\ call = NoCall

\* The call ends in machine state m with the vectors nv; the fuse chosen
\* went off if one was set, and the arrays fit the memory modelled.
Finish(f, m, nv, c) ==
    /\ f = 0 \/ m.thrown
    /\ TotalCapacity(nv) <= IF nv["a"].alive /\ nv["b"].alive THEN MaxPair ELSE room
    /\ heap' = m.heap
    /\ ub' = m.ub
    /\ vec' = nv
    /\ call' = [c EXCEPT !.fuse = f]
    /\ UNCHANGED <<T, room>>

\* No object exists; limit is the memory a single array may take.
Start(limit) ==
    /\ heap = [b \in Blocks |-> <<>>]
    /\ vec = [x \in Vecs |-> NoObject]
    /\ raw = [x \in Raws |-> [alive |-> FALSE, buffer_ |-> 0, capacity_ |-> 0]]
    /\ T \in [nothrowMove : BOOLEAN, moveEmpties : BOOLEAN]
    /\ ub = FALSE
    /\ call = NoCall
    /\ hist = <<>>
    /\ room = limit

Init == Start(MaxTotal)

DoDefault(x) ==
    /\ Idle /\ ~vec[x].alive
    /\ Finish(0, M(0), [vec EXCEPT ![x] = Object(VectorDefault)],
              Call("Vector", x, M(0), "none", 0, 0, <<0, 0>>))

DoSized(x, n, f) ==
    /\ Idle /\ ~vec[x].alive
    /\ LET r == VectorSized(M(f), n)
       IN Finish(f, r.m, [vec EXCEPT ![x] = IF r.m.thrown THEN NoObject ELSE Object(r.v)],
                 Call("VectorSized", x, r.m, "none", n, 0, <<0, 0>>))

DoCopy(x, y, f) ==
    /\ Idle /\ ~vec[x].alive /\ vec[y].alive
    /\ LET r == VectorCopy(M(f), V(y))
       IN Finish(f, r.m, [vec EXCEPT ![x] = IF r.m.thrown THEN NoObject ELSE Object(r.v)],
                 Call("VectorCopy", x, r.m, "none", 0, 0, <<0, 0>>))

DoMove(x, y) ==
    /\ Idle /\ ~vec[x].alive /\ vec[y].alive
    /\ LET r == VectorMove(V(y))
       IN Finish(0, M(0), [vec EXCEPT ![x] = Object(r[1]), ![y] = Object(r[2])],
                 Call("VectorMove", x, M(0), "none", 0, 0, <<0, 0>>))

DoDtor(x) ==
    /\ Idle /\ vec[x].alive
    /\ LET m == VectorDtor(M(0), V(x))
       IN Finish(0, m, [vec EXCEPT ![x] = NoObject],
                 Call("~Vector", x, m, "none", 0, 0, <<0, 0>>))

DoSwap(x, y) ==
    /\ Idle /\ vec[x].alive /\ vec[y].alive
    /\ LET r == Swap(V(x), V(y))
       IN Finish(0, M(0), [vec EXCEPT ![y] = Object(r[2]), ![x] = Object(r[1])],
                 Call("Swap", x, M(0), "none", 0, 0, <<0, 0>>))

DoReserve(x, n, f) ==
    /\ Idle /\ vec[x].alive
    /\ LET r == Reserve(M(f), V(x), n)
       IN Finish(f, r.m, [vec EXCEPT ![x] = Object(r.v)],
                 Call("Reserve", x, r.m,
                      IF n > vec[x].data_.capacity_ THEN "grow" ELSE "inplace", n, 0, <<0, 0>>))

DoResize(x, n, f) ==
    /\ Idle /\ vec[x].alive
    /\ LET r == Resize(M(f), V(x), n)
       IN Finish(f, r.m, [vec EXCEPT ![x] = Object(r.v)],
                 Call("Resize", x, r.m,
                      IF n > vec[x].data_.capacity_ THEN "grow" ELSE "inplace", n, 0, <<0, 0>>))

DoPushBack(x, val, rvalue, f) ==
    /\ Idle /\ vec[x].alive
    /\ LET r == PushBack(M(f), V(x), val, rvalue)
       IN Finish(f, r.m, [vec EXCEPT ![x] = Object(r.v)],
                 Call(IF rvalue THEN "PushBackMove" ELSE "PushBack", x, r.m, GrowPath(x),
                      vec[x].size_, val, <<0, 0>>))

DoPopBack(x) ==
    /\ Idle /\ vec[x].alive
    /\ LET r == PopBack(M(0), V(x))
       IN Finish(0, r.m, [vec EXCEPT ![x] = Object(r.v)],
                 Call("PopBack", x, r.m, "none", 0, 0, <<0, 0>>))

DoEmplaceBack(x, val, f) ==
    /\ Idle /\ vec[x].alive
    /\ LET r == EmplaceBack(M(f), V(x), val)
       IN Finish(f, r.m, [vec EXCEPT ![x] = Object(r.v)],
                 Call("EmplaceBack", x, r.m, GrowPath(x), vec[x].size_, val, <<0, 0>>))

\* Emplace, Insert(const T&) and Insert(T&&); line 393 asserts the position.
DoEmplace(x, shift, val, kind, f) ==
    /\ Idle /\ vec[x].alive
    /\ shift <= vec[x].size_
    /\ LET r == Emplace(M(f), V(x), shift, val, kind)
       IN Finish(f, r.m, [vec EXCEPT ![x] = Object(r.v)],
                 Call("Emplace", x, r.m, GrowPath(x), shift, val, r.ret))

\* Erase; line 448 asserts the position.
DoErase(x, shift, f) ==
    /\ Idle /\ vec[x].alive
    /\ shift < vec[x].size_
    /\ LET r == Erase(M(f), V(x), shift)
       IN Finish(f, r.m, [vec EXCEPT ![x] = Object(r.v)],
                 Call("Erase", x, r.m, "none", shift, 0, r.ret))

\* x = y, also for x and y the same object.
DoAssignCopy(x, y, f) ==
    /\ Idle /\ vec[x].alive /\ vec[y].alive
    /\ LET r == AssignCopy(M(f), V(x), V(y), x = y)
       IN Finish(f, r.m, [vec EXCEPT ![x] = Object(r.v)],
                 Call("AssignCopy", x, r.m,
                      IF x = y THEN "self"
                      ELSE IF vec[y].size_ > vec[x].data_.capacity_ THEN "grow" ELSE "inplace",
                      0, 0, <<0, 0>>))

\* x = std::move(y), also for x and y the same object.
DoAssignMove(x, y) ==
    /\ Idle /\ vec[x].alive /\ vec[y].alive
    /\ LET r == AssignMove(V(x), V(y))
       IN Finish(0, M(0), [vec EXCEPT ![y] = Object(r[2]), ![x] = Object(r[1])],
                 Call("AssignMove", x, M(0), IF x = y THEN "self" ELSE "none", 0, 0, <<0, 0>>))

\* x[index] = val; line 350 asserts the index.
DoIndexWrite(x, index, val, f) ==
    /\ Idle /\ vec[x].alive
    /\ index < vec[x].size_
    /\ LET m == IndexWrite(M(f), V(x), index, val)
       IN Finish(f, m, vec, Call("IndexWrite", x, m, "none", index, val, <<0, 0>>))

\* x.PushBack(x[src]) and x.PushBack(std::move(x[src])); val records the value
\* x[src] has when the call is made.
DoPushBackRef(x, src, rvalue) ==
    /\ Idle /\ vec[x].alive
    /\ src < vec[x].size_
    /\ LET r == PushBackRef(M(0), V(x), src, rvalue)
       IN Finish(0, r.m, [vec EXCEPT ![x] = Object(r.v)],
                 Call(IF rvalue THEN "PushBackMoveRef" ELSE "PushBackRef", x, r.m, GrowPath(x),
                      vec[x].size_, At(M(0), vec[x].data_.buffer_, src), <<0, 0>>))

\* x.EmplaceBack(x[src])
DoEmplaceBackRef(x, src) ==
    /\ Idle /\ vec[x].alive
    /\ src < vec[x].size_
    /\ LET r == EmplaceBackRef(M(0), V(x), src)
       IN Finish(0, r.m, [vec EXCEPT ![x] = Object(r.v)],
                 Call("EmplaceBackRef", x, r.m, GrowPath(x), vec[x].size_,
                      At(M(0), vec[x].data_.buffer_, src), <<0, 0>>))

\* x.Insert(x.begin() + shift, x[src])
DoEmplaceRef(x, shift, src) ==
    /\ Idle /\ vec[x].alive
    /\ shift <= vec[x].size_ /\ src < vec[x].size_
    /\ LET r == EmplaceRef(M(0), V(x), shift, src)
       IN Finish(0, r.m, [vec EXCEPT ![x] = Object(r.v)],
                 Call("EmplaceRef", x, r.m, GrowPath(x), shift,
                      At(M(0), vec[x].data_.buffer_, src), r.ret))

\* The caller takes the result of the call and is ready to make another.
Return ==
    /\ ~ub /\ call # NoCall /\ call.out = "ok"
    /\ call' = NoCall
    /\ UNCHANGED <<heap, vec, T, ub, room>>

\* The exception leaves the scope of the vectors: ~Vector() runs on each.
Unwind ==
    /\ ~ub /\ call.out = "throw"
    /\ LET m1 == IF vec["b"].alive THEN VectorDtor(M(0), V("b")) ELSE M(0)
           m2 == IF vec["a"].alive THEN VectorDtor(m1, V("a")) ELSE m1
       IN Finish(0, m2, [x \in Vecs |-> NoObject],
                 Call("unwind", call.tgt, m2, "none", 0, 0, <<0, 0>>))

\* The calls below leave the stand-alone blocks and the history alone.
Keep == UNCHANGED <<raw, hist>>

\* One array, and calls in which element operations may throw.
Solo == {"a"}

Next ==
    \/ Return /\ Keep
    \/ Unwind /\ Keep
    \/ \E x \in Solo :
          DoDefault(x) /\ Keep
    \/ \E x \in Solo, n \in Sizes : \E f \in 0 .. n :
          DoSized(x, n, f) /\ Keep
    \/ \E x \in Solo :
          DoDtor(x) /\ Keep
    \/ \E x \in Solo, n \in Sizes : \E f \in 0 .. vec[x].size_ :
          DoReserve(x, n, f) /\ Keep
    \/ \E x \in Solo, n \in Sizes : \E f \in 0 .. MaxTotal :
          DoResize(x, n, f) /\ Keep
    \/ \E x \in Solo, val \in Vals, rvalue \in BOOLEAN : \E f \in Fuses(x) :
          DoPushBack(x, val, rvalue, f) /\ Keep
    \/ \E x \in Solo :
          DoPopBack(x) /\ Keep
    \/ \E x \in Solo, val \in Vals : \E f \in Fuses(x) :
          DoEmplaceBack(x, val, f) /\ Keep
    \/ \E x \in Solo, shift \in Sizes, val \in Vals, kind \in {"copy", "move"} :
          \E f \in 0 .. vec[x].size_ + 2 : DoEmplace(x, shift, val, kind, f) /\ Keep
    \/ \E x \in Solo, shift \in Sizes : \E f \in 0 .. vec[x].size_ :
          DoErase(x, shift, f) /\ Keep
    \/ \E x \in Solo, index \in Sizes, val \in Vals, f \in 0 .. 1 :
          DoIndexWrite(x, index, val, f) /\ Keep

Spec == Init /\ [][Next]_vars

\* Two arrays, and calls in which nothing throws.
NextPair ==
    \/ Return /\ Keep
    \/ \E x \in Vecs :
          DoDefault(x) /\ Keep
    \/ \E x \in Vecs, n \in Sizes :
          DoSized(x, n, 0) /\ Keep
    \/ \E x, y \in Vecs :
          DoCopy(x, y, 0) /\ Keep
    \/ \E x, y \in Vecs :
          DoMove(x, y) /\ Keep
    \/ \E x \in Vecs :
          DoDtor(x) /\ Keep
    \/ \E x, y \in Vecs :
          DoSwap(x, y) /\ Keep
    \/ \E x \in Vecs, n \in Sizes :
          DoReserve(x, n, 0) /\ Keep
    \/ \E x \in Vecs, n \in Sizes :
          DoResize(x, n, 0) /\ Keep
    \/ \E x \in Vecs, val \in Vals, rvalue \in BOOLEAN :
          DoPushBack(x, val, rvalue, 0) /\ Keep
    \/ \E x \in Vecs :
          DoPopBack(x) /\ Keep
    \/ \E x \in Vecs, val \in Vals :
          DoEmplaceBack(x, val, 0) /\ Keep
    \/ \E x \in Vecs, shift \in Sizes, val \in Vals, kind \in {"copy", "move"} :
          DoEmplace(x, shift, val, kind, 0) /\ Keep
    \/ \E x \in Vecs, shift \in Sizes :
          DoErase(x, shift, 0) /\ Keep
    \/ \E x, y \in Vecs :
          DoAssignCopy(x, y, 0) /\ Keep
    \/ \E x, y \in Vecs :
          DoAssignMove(x, y) /\ Keep
    \/ \E x \in Vecs, index \in Sizes, val \in Vals :
          DoIndexWrite(x, index, val, 0) /\ Keep

SpecPair == Init /\ [][NextPair]_vars

\* One array built by appends and removals alone; hist is the sequence of
\* those calls, the value appended or 0 for a removal.
NextStack ==
    \/ Return /\ Keep
    \/ DoDefault("a") /\ Keep
    \/ \E n \in Sizes : DoReserve("a", n, 0) /\ Keep
    \/ \E val \in Vals, rvalue \in BOOLEAN :
          /\ Len(hist) < MaxOps
          /\ DoPushBack("a", val, rvalue, 0)
          /\ hist' = Append(hist, val)
          /\ UNCHANGED raw
    \/ \E val \in Vals :
          /\ Len(hist) < MaxOps
          /\ DoEmplaceBack("a", val, 0)
          /\ hist' = Append(hist, val)
          /\ UNCHANGED raw
    \/ /\ Len(hist) < MaxOps
       /\ DoPopBack("a")
       /\ hist' = Append(hist, 0)
       /\ UNCHANGED raw

SpecStack == Init /\ [][NextStack]_vars

\* Two arrays that are constructed, by size and as copies, with element
\* constructions that may throw, written and destroyed.
NextBuild ==
    \/ Return /\ Keep
    \/ Unwind /\ Keep
    \/ \E x \in Vecs, n \in Sizes : \E f \in 0 .. n :
          DoSized(x, n, f) /\ Keep
    \/ \E x, y \in Vecs : \E f \in 0 .. vec[y].size_ :
          DoCopy(x, y, f) /\ Keep
    \/ \E x \in Vecs :
          DoDtor(x) /\ Keep
    \/ \E x \in Vecs, index \in Sizes, val \in Vals :
          DoIndexWrite(x, index, val, 0) /\ Keep

SpecBuild == Init /\ [][NextBuild]_vars

\* One array, and appends and insertions whose argument is one of its own
\* elements.
NextAlias ==
    \/ Return /\ Keep
    \/ DoDefault("a") /\ Keep
    \/ \E n \in Sizes : DoReserve("a", n, 0) /\ Keep
    \/ \E val \in Vals : DoPushBack("a", val, FALSE, 0) /\ Keep
    \/ DoPopBack("a") /\ Keep
    \/ \E src \in Sizes, rvalue \in BOOLEAN : DoPushBackRef("a", src, rvalue) /\ Keep
    \/ \E src \in Sizes : DoEmplaceBackRef("a", src) /\ Keep
    \/ \E shift, src \in Sizes : DoEmplaceRef("a", shift, src) /\ Keep

SpecAlias == Init /\ [][NextAlias]_vars

\* One array that is constructed, reserved, resized, written and shortened,
\* with room for MaxWide elements.
InitWide == Start(MaxWide)

WideSizes == 0 .. MaxWide

NextWide ==
    \/ Return /\ Keep
    \/ DoDefault("a") /\ Keep
    \/ \E n \in WideSizes : DoSized("a", n, 0) /\ Keep
    \/ DoDtor("a") /\ Keep
    \/ \E n \in WideSizes : DoReserve("a", n, 0) /\ Keep
    \/ \E n \in WideSizes : DoResize("a", n, 0) /\ Keep
    \/ DoPopBack("a") /\ Keep
    \/ \E index \in WideSizes, val \in Vals : DoIndexWrite("a", index, val, 0) /\ Keep

SpecWide == InitWide /\ [][NextWide]_vars

(***************************************************************************)
(* RawMemory blocks r and s on their own.                                  *)
(***************************************************************************)
NoBlock == [alive |-> FALSE, buffer_ |-> 0, capacity_ |-> 0]
Block(r) == [alive |-> TRUE, buffer_ |-> r.buffer_, capacity_ |-> r.capacity_]
R(x) == [buffer_ |-> raw[x].buffer_, capacity_ |-> raw[x].capacity_]

FinishRaw(m, nr) ==
    /\ heap' = m.heap
    /\ ub' = m.ub
    /\ raw' = nr
    /\ UNCHANGED <<vec, T, call, hist, room>>

\* RawMemory() = default
RawDefault(x) ==
    /\ ~ub /\ ~raw[x].alive
    /\ FinishRaw(M(0), [raw EXCEPT ![x] = Block(NullRaw)])

RawConstruct(x, n) ==
    /\ ~ub /\ ~raw[x].alive
    /\ n = 0 \/ FreeBlocks(M(0)) # {}
    /\ LET a == RawMemoryCtor(M(0), n)
       IN FinishRaw(a.m, [raw EXCEPT ![x] = Block(a.r)])

RawDestroy(x) ==
    /\ ~ub /\ raw[x].alive
    /\ FinishRaw(RawMemoryDtor(M(0), R(x)), [raw EXCEPT ![x] = NoBlock])

RawMoveConstruct(x, y) ==
    /\ ~ub /\ ~raw[x].alive /\ raw[y].alive
    /\ LET p == RawMemoryMoveCtor(R(y))
       IN FinishRaw(M(0), [raw EXCEPT ![x] = Block(p[1]), ![y] = Block(p[2])])

\* x = std::move(y), also for x and y the same object.
RawMoveAssign(x, y) ==
    /\ ~ub /\ raw[x].alive /\ raw[y].alive
    /\ LET p == RawMemoryMoveAssign(R(x), R(y), x = y)
       IN FinishRaw(M(0), [raw EXCEPT ![y] = Block(p[2]), ![x] = Block(p[1])])

RawSwap(x, y) ==
    /\ ~ub /\ raw[x].alive /\ raw[y].alive
    /\ LET p == RawMemorySwap(R(x), R(y))
       IN FinishRaw(M(0), [raw EXCEPT ![y] = Block(p[2]), ![x] = Block(p[1])])

NextRaw ==
    \/ \E x \in Raws : RawDefault(x)
    \/ \E x \in Raws, n \in 0 .. MaxRaw : RawConstruct(x, n)
    \/ \E x \in Raws : RawDestroy(x)
    \/ \E x, y \in Raws : RawMoveConstruct(x, y)
    \/ \E x, y \in Raws : RawMoveAssign(x, y)
    \/ \E x, y \in Raws : RawSwap(x, y)

SpecRaw == Init /\ [][NextRaw]_vars

(***************************************************************************)
(* Properties.                                                             *)
(***************************************************************************)
\* What slot i of the slots s holds; past the end of the block, no object.
Held(s, i) == IF i \in DOMAIN s THEN s[i] ELSE RAW

\* The live range of vector x now, and as it was before the call recorded.
Elems(x) == [i \in 1 .. vec[x].size_ |-> Held(Slots(heap, vec[x].data_.buffer_), i)]
PreElems(x) == [i \in 1 .. call.pre[x].size_ |-> Held(call.pre[x].slots, i)]
Blank(n) == [i \in 1 .. n |-> RAW]
Other(x) == IF x = "a" THEN "b" ELSE "a"

\* The core invariant of a vector seen as a snapshot s: exactly the slots
\* [0, size_) of its block hold objects.
WellFormed(s) ==
    /\ s.size_ <= s.data_.capacity_
    /\ Len(s.slots) = s.data_.capacity_
    /\ \A i \in 1 .. Len(s.slots) : (s.slots[i] # RAW) <=> (i <= s.size_)

\* C1: an Insert/Emplace of val at index idx that returns yields the old
\* elements with val put in at idx: one element more, those before idx
\* unchanged, val at idx, those from idx on moved up by one; on both paths and
\* for every element type.
C1_InsertAt ==
    (call.op = "Emplace" /\ call.out = "ok") =>
        LET old == PreElems(call.tgt)
        IN /\ vec[call.tgt].size_ = Len(old) + 1
           /\ Elems(call.tgt) =
                 SubSeq(old, 1, call.idx) \o <<call.val>> \o SubSeq(old, call.idx + 1, Len(old))

\* C2: after any sequence of calls that all returned, every vector has
\* 0 <= size_ <= capacity, objects in exactly the slots [0, size_) of its block,
\* and no object was destroyed twice.
C2_CoreInvariant ==
    /\ ~ub
    /\ \A x \in Vecs : vec[x].alive => WellFormed(Snap(x))

C2_Witness ==
    /\ call.op = "Emplace" /\ call.out = "ok" /\ call.path = "inplace"
    /\ vec["b"].alive /\ vec["b"].size_ = 1
    /\ vec["a"].size_ = 2 /\ vec["a"].data_.capacity_ = 2 /\ \A x \in Vecs : WellFormed(Snap(x))

\* The stack that a sequence h of appends (a value) and removals (0) builds:
\* a removal from the empty stack does nothing.
RECURSIVE Replay(_)
Replay(h) ==
    IF h = <<>> THEN <<>>
    ELSE LET s == Replay(SubSeq(h, 1, Len(h) - 1))
             e == h[Len(h)]
         IN IF e # 0 THEN Append(s, e)
            ELSE IF s = <<>> THEN s ELSE SubSeq(s, 1, Len(s) - 1)

Appends(h) == Cardinality({i \in DOMAIN h : h[i] # 0})
Removals(h) == Cardinality({i \in DOMAIN h : h[i] = 0})

\* C3 as stated: after a sequence of appends and removals on an empty array
\* the length is the number of appends minus the number of removals, floored at
\* 0, and the elements are the surviving appended values, oldest first.
C3_NetCount ==
    vec["a"].alive =>
        /\ vec["a"].size_ = Max(0, Appends(hist) - Removals(hist))
        /\ Elems("a") = Replay(hist)

\* C3 as amended: the length is the count kept by adding one for every append
\* and taking one off for every removal, never going below 0 at any point of
\* the sequence (a removal from an empty array is not counted), and the elements
\* are the surviving appended values, oldest first.
C3_RunningCount ==
    vec["a"].alive =>
        /\ vec["a"].size_ = Len(Replay(hist))
        /\ Elems("a") = Replay(hist)

C3_Witness ==
    /\ Len(hist) >= 4 /\ hist[1] = 0 /\ hist[3] = 0
    /\ vec["a"].size_ = 2 /\ Elems("a") = <<1, 2>>

\* C4: an Erase at index idx of n elements leaves n - 1: those before idx
\* unchanged, those after it moved down by one; the block and its capacity are
\* the same, and of the n objects only the one in the last slot is gone.
C4_EraseAt ==
    (call.op = "Erase" /\ call.out = "ok") =>
        LET x == call.tgt
            old == PreElems(x)
        IN /\ vec[x].size_ = Len(old) - 1
           /\ Elems(x) = SubSeq(old, 1, call.idx) \o SubSeq(old, call.idx + 2, Len(old))
           /\ vec[x].data_ = call.pre[x].data_
           /\ Slots(heap, vec[x].data_.buffer_) =
                 Elems(x) \o Blank(vec[x].data_.capacity_ - vec[x].size_)

C4_Witness ==
    /\ call.op = "Erase" /\ call.out = "ok" /\ call.idx = 0
    /\ PreElems("a") = <<1, 2>> /\ Elems("a") = <<2>> /\ T.moveEmpties

\* The calls that change the vector they are made on.
Mutators ==
    {"PushBack", "PushBackMove", "EmplaceBack", "PopBack", "Emplace", "Erase", "Resize",
     "Reserve", "IndexWrite", "AssignCopy"}

\* C5: a vector constructed as a copy has the length and the elements of its
\* source, and no call that changes one vector changes the length, the
\* capacity or the elements of the other.
C5_DeepCopy ==
    /\ (call.op = "VectorCopy" /\ call.out = "ok") =>
          /\ vec[call.tgt].size_ = vec[Other(call.tgt)].size_
          /\ Elems(call.tgt) = Elems(Other(call.tgt))
          /\ Snap(Other(call.tgt)) = call.pre[Other(call.tgt)]
    /\ call.op \in Mutators => Snap(Other(call.tgt)) = call.pre[Other(call.tgt)]

\* b, equal to a and in a block of its own, is changed.
C5_Witness ==
    /\ call.op = "IndexWrite" /\ call.tgt = "b" /\ call.out = "ok"
    /\ call.pre["a"].alive /\ call.pre["a"].size_ = 1
    /\ PreElems("b") = PreElems("a") /\ Elems("b") # Elems("a")
    /\ call.pre["b"].data_.buffer_ # call.pre["a"].data_.buffer_

Appenders == {"PushBack", "PushBackMove", "EmplaceBack"}

\* C6: an append made with size_ == capacity leaves the capacity at
\* max(1, 2 * old capacity), so at least the old length plus one, the old
\* elements where they were and the new one after them.
C6_Growth ==
    (call.op \in Appenders /\ call.path = "grow" /\ call.out = "ok") =>
        LET x == call.tgt
            old == PreElems(x)
        IN /\ vec[x].data_.capacity_ = Max(1, 2 * call.pre[x].data_.capacity_)
           /\ vec[x].data_.capacity_ >= Len(old) + 1
           /\ Elems(x) = old \o <<call.val>>

C6_Witness ==
    /\ call.op \in Appenders /\ call.path = "grow" /\ call.out = "ok"
    /\ call.pre["a"].data_.capacity_ = 1 /\ vec["a"].data_.capacity_ = 2
    /\ Elems("a") = <<1, 2>>

Growers == {"PushBack", "PushBackMove", "EmplaceBack", "Emplace", "Reserve"}

\* C7: when elements are transferred by copy and a call on the growth path
\* throws, the vector is as it was before the call: length, capacity, block
\* and every element.
C7_StrongGuarantee ==
    (call.op \in Growers /\ call.path = "grow" /\ call.out = "throw" /\ ~MovePolicy) =>
        Snap(call.tgt) = call.pre[call.tgt]

\* The copy of the second element fails in an Emplace that grows.
C7_Witness ==
    /\ call.op = "Emplace" /\ call.path = "grow" /\ call.out = "throw" /\ ~MovePolicy
    /\ call.fuse = 3 /\ vec["a"].size_ = 2 /\ T.moveEmpties

\* C8: a call on the growth path that throws leaks no element: every element
\* it constructed in the new block is destroyed before the block is released.
C8_NoLeak ==
    (call.op \in Growers \ {"Reserve"} /\ call.path = "grow" /\ call.out = "throw") =>
        ~call.leak

\* C9: an Emplace on the in-place path that throws leaves the vector with
\* objects in exactly the slots [0, size_).
C9_InPlaceConsistent ==
    (call.op = "Emplace" /\ call.path = "inplace" /\ call.out = "throw") =>
        WellFormed(Snap(call.tgt))

\* C10: every allocated region is owned by exactly one RawMemory block, every
\* block owns an allocated region of its capacity or none, and no region is
\* released twice.
Owners(b) == {x \in Raws : raw[x].alive /\ raw[x].buffer_ = b}

C10_ExclusiveOwnership ==
    /\ ~ub
    /\ \A b \in Blocks : heap[b] # <<>> => Cardinality(Owners(b)) = 1
    /\ \A x \in Raws :
          raw[x].alive =>
              IF raw[x].buffer_ = 0 THEN raw[x].capacity_ = 0
              ELSE Len(heap[raw[x].buffer_]) = raw[x].capacity_

\* The regions in use are those of the vectors that exist.
NoStrayBlock == \A b \in Blocks : heap[b] # <<>> => \E z \in Vecs : vec[z].alive /\ vec[z].data_.buffer_ = b

\* C11: a copy assignment x = y with y's length within x's capacity leaves x
\* with y's length and elements, in the block and with the capacity it had,
\* with no object past its length and none destroyed twice, allocates no
\* region and leaves y as it was; x = x changes nothing.
C11_AssignFits ==
    (call.op = "AssignCopy" /\ call.out = "ok" /\ call.path # "grow") =>
        LET x == call.tgt
            y == Other(x)
        IN IF call.path = "self" THEN \A z \in Vecs : Snap(z) = call.pre[z]
           ELSE /\ vec[x].size_ = call.pre[y].size_
                /\ Elems(x) = PreElems(y)
                /\ vec[x].data_ = call.pre[x].data_
                /\ WellFormed(Snap(x))
                /\ Snap(y) = call.pre[y]
                /\ NoStrayBlock

\* a of two elements is assigned b of one, different from a's first.
C11_Witness ==
    /\ call.op = "AssignCopy" /\ call.out = "ok" /\ call.path = "inplace" /\ call.tgt = "a"
    /\ call.pre["a"].size_ = 2 /\ call.pre["b"].size_ = 1
    /\ PreElems("a")[1] # PreElems("b")[1]
    /\ Elems("a") = PreElems("b") /\ Slots(heap, vec["a"].data_.buffer_)[2] = RAW

\* C12: a Resize(n) that returns leaves length n.  For n below the old
\* length the first n elements and the capacity (and block) are as they were
\* and the others are destroyed; otherwise the old elements keep their values,
\* the new ones are value-initialised, and the capacity is the old one when n
\* fits in it and max(2 * old capacity, n) when it does not.
C12_Resize ==
    (call.op = "Resize" /\ call.out = "ok") =>
        LET x == call.tgt
            n == call.idx
            old == PreElems(x)
            cap == call.pre[x].data_.capacity_
        IN /\ vec[x].size_ = n
           /\ WellFormed(Snap(x))
           /\ IF n < Len(old)
              THEN /\ Elems(x) = [i \in 1 .. n |-> old[i]]
                   /\ vec[x].data_ = call.pre[x].data_
              ELSE /\ Elems(x) = [i \in 1 .. n |-> IF i <= Len(old) THEN old[i] ELSE EMPTY]
                   /\ vec[x].data_.capacity_ = IF n <= cap THEN cap ELSE Max(2 * cap, n)
                   /\ n <= cap => vec[x].data_ = call.pre[x].data_

\* Resize(3) of <<1, 2>> in a block of two: the capacity doubles to 4.
C12_Witness ==
    /\ call.op = "Resize" /\ call.out = "ok" /\ call.idx = 3
    /\ call.pre["a"].data_.capacity_ = 2 /\ PreElems("a") = <<1, 2>>
    /\ vec["a"].data_.capacity_ = 4 /\ Elems("a") = <<1, 2, EMPTY>>

\* C13: a Reserve(n) that returns with n within the capacity leaves the
\* vector as it was, block included; with n above it the capacity is n, the
\* length and the elements are as they were, in another block, and the old
\* block is released with every object in it destroyed once.
C13_Reserve ==
    (call.op = "Reserve" /\ call.out = "ok") =>
        LET x == call.tgt
            n == call.idx
            was == call.pre[x]
        IN IF n <= was.data_.capacity_ THEN Snap(x) = was
           ELSE /\ vec[x].data_.capacity_ = n
                /\ vec[x].size_ = was.size_
                /\ Elems(x) = PreElems(x)
                /\ WellFormed(Snap(x))
                /\ vec[x].data_.buffer_ # was.data_.buffer_
                /\ was.data_.buffer_ # 0 => heap[was.data_.buffer_] = <<>>
                /\ ~call.leak
                /\ NoStrayBlock

\* Reserve(4) of <<1, 2>> in a block of two, by moves that empty their source.
C13_Witness ==
    /\ call.op = "Reserve" /\ call.out = "ok" /\ call.idx = 4
    /\ call.pre["a"].data_.capacity_ = 2 /\ PreElems("a") = <<1, 2>>
    /\ Elems("a") = <<1, 2>> /\ T.nothrowMove /\ T.moveEmpties

\* C14: a move construction x(std::move(y)) gives x the block, the length
\* and the elements y had and leaves y with no block and length 0; a move
\* assignment x = std::move(y) leaves x as y was and y as x was, and
\* x = std::move(x) leaves x as it was.  Neither constructs, destroys or
\* changes an object: the slots of the blocks are as they were.
C14_MoveTransfers ==
    LET x == call.tgt
        y == Other(x)
    IN /\ (call.op = "VectorMove") =>
             /\ call.out = "ok"
             /\ Snap(x) = call.pre[y]
             /\ Snap(y) = [alive |-> TRUE, data_ |-> NullRaw, size_ |-> 0, slots |-> <<>>]
             /\ NoStrayBlock
       /\ (call.op = "AssignMove") =>
             /\ call.out = "ok"
             /\ IF call.path = "self" THEN \A z \in Vecs : Snap(z) = call.pre[z]
                ELSE Snap(x) = call.pre[y] /\ Snap(y) = call.pre[x]
             /\ NoStrayBlock

\* a of one element takes over b of two.
C14_Witness ==
    /\ call.op = "AssignMove" /\ call.tgt = "a" /\ call.path = "none"
    /\ call.pre["a"].size_ = 1 /\ call.pre["b"].size_ = 2
    /\ vec["a"].size_ = 2 /\ vec["b"].size_ = 1
    /\ vec["a"].data_.buffer_ = call.pre["b"].data_.buffer_

C14_WitnessConstruct ==
    /\ call.op = "VectorMove" /\ call.tgt = "b" /\ call.pre["a"].size_ = 2
    /\ vec["b"].size_ = 2 /\ vec["a"].size_ = 0 /\ vec["a"].data_.capacity_ = 0

Constructors == {"VectorSized", "VectorCopy"}

\* C15: when the construction of an element throws in Vector(size_t) or in
\* Vector(const Vector&), no vector comes to exist, the elements constructed
\* before are destroyed (once each), the block allocated is released, and
\* the other vector, the source of a copy, is as it was.
C15_AllOrNothing ==
    (call.op \in Constructors /\ call.out = "throw") =>
        /\ ~vec[call.tgt].alive
        /\ ~call.leak
        /\ NoStrayBlock
        /\ Snap(Other(call.tgt)) = call.pre[Other(call.tgt)]

\* The copy of the second of b's two elements throws.
C15_Witness ==
    /\ call.op = "VectorCopy" /\ call.out = "throw" /\ call.fuse = 2 /\ call.tgt = "a"
    /\ vec["b"].alive /\ Elems("b") = <<1, 2>> /\ ~vec["a"].alive

\* C16: PopBack on a vector of length 0, whatever its capacity, returns and
\* leaves the length, the capacity, the block and its (empty) slots as they
\* were; so does any number of such calls.
C16_PopEmpty ==
    (call.op = "PopBack" /\ call.pre[call.tgt].size_ = 0) =>
        /\ call.out = "ok"
        /\ Snap(call.tgt) = call.pre[call.tgt]
        /\ ~call.leak

C16_Witness ==
    /\ call.op = "PopBack" /\ call.pre["a"].size_ = 0 /\ call.pre["a"].data_.capacity_ = 2
    /\ vec["a"].size_ = 0 /\ vec["a"].data_.capacity_ = 2

\* C17: an Emplace/Insert at index idx that returns gives back the position
\* idx of the block the vector holds after the call, the slot of the new
\* element; an Erase at idx gives back the position idx of the block, which
\* is the same as before, and that is end() when the last element was erased.
C17_ReturnedPosition ==
    LET x == call.tgt
        here == <<vec[x].data_.buffer_, call.idx>>
    IN /\ (call.op = "Emplace" /\ call.out = "ok") =>
             /\ call.ret = here
             /\ call.idx < vec[x].size_
             /\ Held(Slots(heap, vec[x].data_.buffer_), call.idx + 1) = call.val
       /\ (call.op = "Erase" /\ call.out = "ok") =>
             /\ call.ret = here
             /\ vec[x].data_ = call.pre[x].data_
             /\ (call.idx = call.pre[x].size_ - 1) => (call.idx = vec[x].size_)

\* An Insert before the one element of a vector whose block is full.
C17_Witness ==
    /\ call.op = "Emplace" /\ call.out = "ok" /\ call.path = "grow" /\ call.idx = 0
    /\ call.pre["a"].size_ = 1 /\ call.pre["a"].data_.buffer_ # vec["a"].data_.buffer_
    /\ call.ret = <<vec["a"].data_.buffer_, 0>>

AliasCalls == {"PushBackRef", "PushBackMoveRef", "EmplaceBackRef", "EmplaceRef"}

\* C18: an append or an insertion at index idx whose argument is an element of
\* the vector itself returns, without reading a slot that holds no object,
\* and the element at idx is then the value the argument had before the call.
C18_AliasedArgument ==
    (call.op \in AliasCalls) =>
        /\ call.out = "ok"
        /\ Held(Slots(heap, vec[call.tgt].data_.buffer_), call.idx + 1) = call.val

\* The same for the appends alone.
C18_AliasedAppend ==
    (call.op \in AliasCalls \ {"EmplaceRef"}) =>
        /\ call.out = "ok"
        /\ Held(Slots(heap, vec[call.tgt].data_.buffer_), call.idx + 1) = call.val

\* The calls that hand a block from one vector to another.
Exchanges == {"Swap", "AssignMove", "VectorMove"}

\* The length the call recorded needs its target to have room for.
Needed ==
    LET x == call.tgt
    IN IF call.op \in Appenders \cup {"Emplace"} THEN call.pre[x].size_ + 1
       ELSE IF call.op \in {"Reserve", "Resize"} THEN call.idx
       ELSE IF call.op = "AssignCopy" /\ call.path # "self" THEN call.pre[Other(x)].size_
       ELSE 0

\* C19: over any call but Swap, move assignment and move construction, a
\* vector that exists before and after has a capacity no smaller than before,
\* and it has another block only if it is the target of the call and the
\* length the call needs is above the capacity it had.
C19_CapacityMonotone ==
    (call.op \notin Exchanges) =>
        \A z \in Vecs :
            (call.pre[z].alive /\ vec[z].alive) =>
                /\ vec[z].data_.capacity_ >= call.pre[z].data_.capacity_
                /\ (vec[z].data_.buffer_ # call.pre[z].data_.buffer_) =>
                       (z = call.tgt /\ Needed > call.pre[z].data_.capacity_)

\* a, with no room, is assigned b of one element and gets a block.
C19_Witness ==
    /\ call.op = "AssignCopy" /\ call.out = "ok" /\ call.path = "grow" /\ call.tgt = "a"
    /\ call.pre["a"].alive /\ call.pre["a"].data_.capacity_ = 0 /\ call.pre["b"].size_ = 1
    /\ vec["a"].data_.capacity_ = 1 /\ vec["b"].data_.capacity_ = 2

====
